---------------------------- MODULE Spec2Model ----------------------------
(***************************************************************************)
(* Model of the TDLR licence application pipeline                          *)
(* (src/src/application_processor.py) and of its prompt test suite         *)
(* (src/src/test_suite.py).                                                *)
(*                                                                         *)
(* Text is a sequence of lexical atoms: the punctuation characters that    *)
(* str.find / str.rfind and the JSON grammar distinguish, maximal runs of  *)
(* digits (one atom per number) and maximal runs of other characters (one  *)
(* atom per word).  A Python dict is a sequence of key/value pairs in      *)
(* insertion order with distinct keys.                                     *)
(***************************************************************************)
EXTENDS Integers, Sequences, FiniteSets, TLC

VARIABLES
    response_text,       \* _parse_json_response: its argument
    parsed,              \* _parse_json_response: its outcome
    pc,                  \* process_application: the statement to run next
    application_data,    \* process_application: its argument
    completeness_result, \* process_application: local, None until step 1 returns
    risk_result,         \* process_application: local, None until step 2 returns
    final_result,        \* process_application: local, None until step 3 returns
    processing_result,   \* process_application: local, None until combined
    outcome,             \* process_application: what its caller received
    now,                 \* datetime.now(), in whole seconds
    files,               \* outputs/processing_results_<second>.json: second -> text
    requests,            \* history: the prompts sent to the service in this run
    trace,               \* history: the pipeline states this run went through
    saves,               \* history: the records handed to _save_results in this run
    suite_pc,            \* test suite: the statement to run next
    iterations,          \* run_consistency_test: its argument
    test_case,           \* test suite: the test case in hand
    results,             \* run_consistency_test: the results collected so far
    metrics,             \* _calculate_performance_rating: its argument
    report,              \* test suite: what the method under study gave its caller
    render_stage,        \* prompt rendering: the stage whose template is filled in
    bindings,            \* prompt rendering: the arguments of two calls
    prompts              \* prompt rendering: the prompt text of each of the two calls

extractVars  == <<response_text, parsed>>
pipelineVars == <<pc, application_data, completeness_result, risk_result, final_result,
                  processing_result, outcome, now, files, requests, trace, saves>>
suiteVars    == <<suite_pc, iterations, test_case, results, metrics, report>>
renderVars   == <<render_stage, bindings, prompts>>
vars == <<extractVars, pipelineVars, suiteVars, renderVars>>

---------------------------------------------------------------------------
(* Bounds of the model.                                                    *)

\* longest text enumerated exhaustively over Alphabet
MaxLen == 3
\* the wall clock runs through the seconds 0..MaxClock
MaxClock == 1
\* run_consistency_test is called with 1..MaxIterations iterations
MaxIterations == 3

---------------------------------------------------------------------------
(* Text atoms.                                                             *)

Ch(c)   == [k |-> c, n |-> 0, w |-> ""]
Num(n)  == [k |-> "num", n |-> n, w |-> ""]
Word(w) == [k |-> "word", n |-> 0, w |-> w]

LBrace   == Ch("{")
RBrace   == Ch("}")
LBracket == Ch("[")
RBracket == Ch("]")
Quote    == Ch("\"")
EscQuote == Ch("\\\"")     \* the two characters backslash, quote
Colon    == Ch(":")
Comma    == Ch(",")
Ws       == Ch(" ")        \* a run of blanks and newlines
\* a run of digits longer than sys.int_info.default_max_str_digits (4300)
LongNum  == Ch("9999...")

Max(a, b) == IF a >= b THEN a ELSE b
Min(a, b) == IF a <= b THEN a ELSE b

\* str.find(ch): 0-based index of the first occurrence, -1 when absent
Find(s, ch) ==
    IF \E i \in 1..Len(s) : s[i] = ch
    THEN (CHOOSE i \in 1..Len(s) : s[i] = ch /\ \A j \in 1..(i-1) : s[j] # ch) - 1
    ELSE -1

\* str.rfind(ch): 0-based index of the last occurrence, -1 when absent
RFind(s, ch) ==
    IF \E i \in 1..Len(s) : s[i] = ch
    THEN (CHOOSE i \in 1..Len(s) : s[i] = ch /\ \A j \in (i+1)..Len(s) : s[j] # ch) - 1
    ELSE -1

\* s[a:b] with Python's rules: a negative index counts from the end, both
\* indices are clamped to 0..len(s), an empty range gives the empty string
PyIndex(s, i) == IF i < 0 THEN Max(Len(s) + i, 0) ELSE Min(i, Len(s))
PySlice(s, a, b) ==
    LET lo == PyIndex(s, a)
        hi == PyIndex(s, b)
    IN  IF lo >= hi THEN <<>> ELSE SubSeq(s, lo + 1, hi)

---------------------------------------------------------------------------
(* JSON values (Python objects json.loads returns and json.dumps accepts). *)

JNull   == [t |-> "null", n |-> 0, s |-> <<>>, o |-> <<>>]
JNum(n) == [t |-> "num",  n |-> n, s |-> <<>>, o |-> <<>>]
JStr(s) == [t |-> "str",  n |-> 0, s |-> s,    o |-> <<>>]
\* items: a sequence of [key |-> <<>>, val |-> value]
JArr(o) == [t |-> "arr",  n |-> 0, s |-> <<>>, o |-> o]
\* members: a sequence of [key |-> text, val |-> value], keys distinct
JObj(o) == [t |-> "obj",  n |-> 0, s |-> <<>>, o |-> o]

Item(v)      == [key |-> <<>>, val |-> v]
Member(w, v) == [key |-> <<Word(w)>>, val |-> v]
Str(w)       == JStr(<<Word(w)>>)
List(vs)     == JArr([i \in 1..Len(vs) |-> Item(vs[i])])

HasKey(d, key) == \E i \in 1..Len(d.o) : d.o[i].key = key

\* d[key] = val: an existing key keeps its position, a new key goes last
DictSet(d, key, val) ==
    IF HasKey(d, key)
    THEN JObj([i \in 1..Len(d.o) |->
                 IF d.o[i].key = key THEN [key |-> key, val |-> val] ELSE d.o[i]])
    ELSE JObj(Append(d.o, [key |-> key, val |-> val]))

\* d.get(w, default)
Get(d, w, default) ==
    IF HasKey(d, <<Word(w)>>)
    THEN d.o[CHOOSE i \in 1..Len(d.o) : d.o[i].key = <<Word(w)>>].val
    ELSE default

---------------------------------------------------------------------------
(* json.dumps(value, indent=2).                                            *)

\* a variant of Escape that writes quotes as they are
Escape_Raw(s) == s

\* inside a string literal a quote is written backslash-quote
Escape(s) == [i \in 1..Len(s) |-> IF s[i] = Quote THEN EscQuote ELSE s[i]]
Unescape(s) == [i \in 1..Len(s) |-> IF s[i] = EscQuote THEN Quote ELSE s[i]]

StringLiteral(s) == <<Quote>> \o Escape(s) \o <<Quote>>

RECURSIVE Dumps(_), DumpsMembers(_, _), DumpsItems(_, _)

\* the members o[i..] of a dict, in insertion order, separated by commas
DumpsMembers(o, i) ==
    IF i > Len(o) THEN <<>>
    ELSE StringLiteral(o[i].key) \o <<Colon, Ws>> \o Dumps(o[i].val)
         \o (IF i < Len(o) THEN <<Comma, Ws>> ELSE <<>>)
         \o DumpsMembers(o, i + 1)

DumpsItems(o, i) ==
    IF i > Len(o) THEN <<>>
    ELSE Dumps(o[i].val)
         \o (IF i < Len(o) THEN <<Comma, Ws>> ELSE <<>>)
         \o DumpsItems(o, i + 1)

Dumps(v) ==
    CASE v.t = "null" -> <<Word("null")>>
      [] v.t = "num"  -> <<Num(v.n)>>
      [] v.t = "str"  -> StringLiteral(v.s)
      [] v.t = "arr"  -> IF v.o = <<>> THEN <<LBracket, RBracket>>
                         ELSE <<LBracket, Ws>> \o DumpsItems(v.o, 1) \o <<Ws, RBracket>>
      [] v.t = "obj"  -> IF v.o = <<>> THEN <<LBrace, RBrace>>
                         ELSE <<LBrace, Ws>> \o DumpsMembers(v.o, 1) \o <<Ws, RBrace>>

---------------------------------------------------------------------------
(* json.loads(text): ok = FALSE stands for json.JSONDecodeError.           *)

Fail      == [ok |-> FALSE, val |-> JNull, next |-> 0, err |-> "JSONDecodeError"]
Ok(v, nx) == [ok |-> TRUE, val |-> v, next |-> nx, err |-> ""]

\* int(digits) on a run longer than sys.int_info.default_max_str_digits is a
\* plain ValueError (CPython 3.11; 3.7 to 3.10 since their 2022 security
\* releases), which is no JSONDecodeError
IntTooLong == [ok |-> FALSE, val |-> JNull, next |-> 0, err |-> "ValueError"]

At(s, i) == IF i >= 1 /\ i <= Len(s) THEN s[i] ELSE Ch("EOF")

\* the first position at or after i that holds no whitespace
SkipWs(s, i) ==
    CHOOSE j \in i..(Len(s) + 1) :
        /\ At(s, j) # Ws
        /\ \A m \in i..(j - 1) : s[m] = Ws

\* a string literal opening at s[i]: up to the next unescaped quote
ParseString(s, i) ==
    IF \E j \in (i + 1)..Len(s) : s[j] = Quote
    THEN LET j == CHOOSE j \in (i + 1)..Len(s) :
                     s[j] = Quote /\ \A m \in (i + 1)..(j - 1) : s[m] # Quote
         IN  Ok(JStr(Unescape(SubSeq(s, i + 1, j - 1))), j + 1)
    ELSE Fail

RECURSIVE ParseValue(_, _), ParseMembers(_, _, _), ParseItems(_, _, _)

\* after "{" or ",": "key" : value, then "," or "}"
ParseMembers(s, i, acc) ==
    IF At(s, i) # Quote THEN Fail
    ELSE LET key == ParseString(s, i)
         IN  IF ~key.ok THEN key
             ELSE LET c == SkipWs(s, key.next)
                  IN  IF At(s, c) # Colon THEN Fail
                      ELSE LET v == ParseValue(s, SkipWs(s, c + 1))
                           IN  IF ~v.ok THEN v
                               ELSE LET e    == SkipWs(s, v.next)
                                        acc2 == DictSet(acc, key.val.s, v.val)
                                    IN  CASE At(s, e) = Comma ->
                                               ParseMembers(s, SkipWs(s, e + 1), acc2)
                                          [] At(s, e) = RBrace -> Ok(acc2, e + 1)
                                          [] OTHER -> Fail

\* after "[" or ",": value, then "," or "]"
ParseItems(s, i, acc) ==
    LET v == ParseValue(s, i)
    IN  IF ~v.ok THEN v
        ELSE LET e    == SkipWs(s, v.next)
                 acc2 == JArr(Append(acc.o, Item(v.val)))
             IN  CASE At(s, e) = Comma -> ParseItems(s, SkipWs(s, e + 1), acc2)
                   [] At(s, e) = RBracket -> Ok(acc2, e + 1)
                   [] OTHER -> Fail

ParseValue(s, i) ==
    LET c == At(s, i)
    IN  CASE c = LBrace ->
               LET j == SkipWs(s, i + 1)
               IN  IF At(s, j) = RBrace THEN Ok(JObj(<<>>), j + 1)
                   ELSE ParseMembers(s, j, JObj(<<>>))
          [] c = LBracket ->
               LET j == SkipWs(s, i + 1)
               IN  IF At(s, j) = RBracket THEN Ok(JArr(<<>>), j + 1)
                   ELSE ParseItems(s, j, JArr(<<>>))
          [] c = Quote -> ParseString(s, i)
          [] c.k = "num" -> Ok(JNum(c.n), i + 1)
          [] c = LongNum -> IntTooLong
          [] c = Word("null") -> Ok(JNull, i + 1)
          [] OTHER -> Fail

\* one value, surrounded by optional whitespace, and nothing else
Loads(s) ==
    LET v == ParseValue(s, SkipWs(s, 1))
    IN  CASE ~v.ok -> v
          [] SkipWs(s, v.next) = Len(s) + 1 -> v
          [] OTHER -> Fail

---------------------------------------------------------------------------
(* TDLRApplicationProcessor._parse_json_response                           *)

ParseFailure(text) ==
    JObj(<< Member("error", Str("Failed to parse AI response")),
            Member("raw_response", JStr(text)) >>)

\* a variant of JsonStr that ends the span at the first "}"
JsonStr_FirstClosing(text) ==
    LET start_idx == Find(text, LBrace)
        end_idx   == Find(text, RBrace) + 1
    IN  PySlice(text, start_idx, end_idx)

\* the candidate span: from the first "{" to the last "}"
JsonStr(text) ==
    LET start_idx == Find(text, LBrace)
        end_idx   == RFind(text, RBrace) + 1
    IN  PySlice(text, start_idx, end_idx)

NotCalled   == [kind |-> "none", val |-> JNull]
Returned(v) == [kind |-> "returned", val |-> v]
Raised(e)   == [kind |-> "raised", val |-> Str(e)]

ErrorName(o) == o.val.s[1].w

\* only json.JSONDecodeError is caught; any other exception propagates
ParseJsonResponse(text) ==
    LET r == Loads(JsonStr(text))
    IN  CASE r.ok -> Returned(r.val)
          [] r.err = "JSONDecodeError" -> Returned(ParseFailure(text))
          [] OTHER -> Raised(r.err)

IsParseFailure(d) ==
    /\ d.t = "obj"
    /\ HasKey(d, <<Word("error")>>)
    /\ HasKey(d, <<Word("raw_response")>>)

---------------------------------------------------------------------------
(* Texts the reasoning service may answer with.                            *)

Alphabet ==
    {LBrace, RBrace, Quote, Colon, Comma, Ws, Num(3), LongNum, Word("risk_score")}

SeqsUpTo(S, n) == UNION {[1..m -> S] : m \in 0..n}

\* one atom per maximal run: no two numbers, words or blanks side by side
Class(a) == IF a = LongNum THEN "num" ELSE a.k
Canonical(s) ==
    \A i \in 1..(Len(s) - 1) :
        ~(Class(s[i]) = Class(s[i + 1]) /\ Class(s[i]) \in {"num", "word", " "})

ShortTexts == {s \in SeqsUpTo(Alphabet, MaxLen) : Canonical(s)}

\* text around the answer that holds no brace
NoiseTexts ==
    { <<>>, <<Ws>>, <<Quote>>, <<Word("Here is the result"), Colon, Ws>>,
      <<Ws, Word("Thank you.")>>, <<Num(3), Comma>>, <<LBracket>>, <<RBracket, Quote>> }

\* the mapping of spec scenario C
RiskShort ==
    JObj(<< Member("risk_score", JNum(3)), Member("risk_level", Str("Low")) >>)

\* answers in the format the completeness_check template asks for
CompletenessAnswer(score) ==
    JObj(<< Member("completeness_score", score),
            Member("missing_documents", List(<<>>)),
            Member("incomplete_documents", List(<<Str("Proof of Insurance")>>)),
            Member("consistency_issues", List(<<>>)),
            Member("next_actions", List(<<Str("Verify {insurance}"), Str("Call")>>)),
            Member("processing_priority", Str("Standard")),
            Member("estimated_resolution_time", Str("5 business days")) >>)

\* answers in the format the risk_assessment template asks for
RiskAnswer(score, level) ==
    JObj(<< Member("risk_score", score),
            Member("risk_level", level),
            Member("risk_factors", List(<<>>)),
            Member("mitigation_recommendations", List(<<>>)),
            Member("reviewer_notes", JStr(<<Word("Clean"), Ws, RBrace, Word("record")>>)),
            Member("requires_human_review", Str("false")),
            Member("recommended_action", Str("Approve")) >>)

\* answers in the format the final_recommendation template asks for
RecommendationAnswer ==
    JObj(<< Member("final_recommendation", Str("Approve")),
            Member("conditions", List(<<>>)),
            Member("required_actions", List(<<>>)),
            Member("processing_timeline", Str("10 business days")),
            Member("priority_flag", Str("Standard")),
            Member("reviewer_notes", Str("ok")),
            Member("citizen_communication", JStr(<<Word("Dear"), Ws, LBrace, Word("name"), RBrace>>)) >>)

Nested == JObj(<< Member("a", JObj(<< Member("b", JNum(2)) >>)), Member("c", JNull) >>)

SampleResults ==
    { JObj(<<>>), RiskShort, Nested, RecommendationAnswer,
      CompletenessAnswer(JNum(85)), CompletenessAnswer(JNum(150)),
      CompletenessAnswer(Str("85")),
      RiskAnswer(JNum(3), Str("Low")), RiskAnswer(JNum(0), JNum(1)) }

\* answers that hold braces but are no single JSON object
BrokenBodies ==
    { <<LBrace, Quote, Word("a"), Quote, Colon, Num(1), RBrace, Ws, Word("and"), Ws,
        LBrace, Quote, Word("b"), Quote, Colon, Num(2), RBrace>>,
      <<LBrace, Quote, Word("a"), Quote, Colon, Num(1), Comma, RBrace>>,
      <<LBrace, Quote, Word("a"), Quote, Num(1), RBrace>>,
      <<LBrace, Word("a"), Colon, Num(1), RBrace>>,
      <<LBrace, Quote, Word("a"), Colon, Num(1), RBrace>>,
      <<RBrace, Ws, LBrace>>,
      <<LBrace, Quote, Word("a"), Quote, Colon, Num(1)>>,
      <<Quote, Word("a"), Quote, Colon, Num(1), RBrace>>,
      <<LBrace, Quote, Word("completeness_score"), Quote, Colon, Ws, LongNum, RBrace>>,
      <<LBrace, Quote, Word("a"), Quote, Colon, LBracket, Num(1), Comma, LongNum>>,
      <<LBrace, Quote, Word("a"), Quote, Colon, LongNum, RBrace, Ws, Word("and"), Ws,
        LBrace, Quote, Word("b"), Quote, Colon, Num(2), RBrace>> }

Bodies == {Dumps(r) : r \in SampleResults} \cup BrokenBodies

NoisyTexts == {p \o b \o q : p \in NoiseTexts, b \in Bodies, q \in NoiseTexts}

\* the text of spec scenario C
ScenarioC ==
    << Word("Here is the result"), Colon, Ws,
       LBrace, Quote, Word("risk_score"), Quote, Colon, Ws, Num(3), Comma, Ws,
       Quote, Word("risk_level"), Quote, Colon, Ws, Quote, Word("Low"), Quote, RBrace,
       Ws, Word("Thank you.") >>

Texts == ShortTexts \cup NoisyTexts \cup {ScenarioC}

\* _calculate_performance_rating reads two entries of its argument
Metrics(time, accuracy) == [average_processing_time |-> time, average_accuracy |-> accuracy]
NoMetrics == Metrics(0, 0)

\* the file of a second in which nothing was saved
NoFile == <<Word("<no file>")>>

---------------------------------------------------------------------------
(* Specification of _parse_json_response as a function of its argument.    *)

ExtractIdle ==
    /\ response_text = <<>>
    /\ parsed = NotCalled

PipelineIdle ==
    /\ pc = "idle"
    /\ application_data = JNull
    /\ completeness_result = JNull
    /\ risk_result = JNull
    /\ final_result = JNull
    /\ processing_result = JNull
    /\ outcome = NotCalled
    /\ now = 0
    /\ files = [t \in 0..MaxClock |-> NoFile]
    /\ requests = <<>>
    /\ trace = <<>>
    /\ saves = <<>>

SuiteIdle ==
    /\ suite_pc = "idle"
    /\ iterations = 0
    /\ test_case = JNull
    /\ results = <<>>
    /\ metrics = NoMetrics
    /\ report = NotCalled

RenderIdle ==
    /\ render_stage = ""
    /\ bindings = <<>>
    /\ prompts = <<>>

InitExtract ==
    /\ response_text \in Texts
    /\ parsed = NotCalled
    /\ PipelineIdle
    /\ RenderIdle
    /\ SuiteIdle

Extract ==
    /\ parsed = NotCalled
    /\ parsed' = ParseJsonResponse(response_text)
    /\ UNCHANGED <<response_text, pipelineVars, suiteVars, renderVars>>

NextExtract == Extract

SpecExtract == InitExtract /\ [][NextExtract]_vars

---------------------------------------------------------------------------
(* Claims about _parse_json_response, checked under SpecExtract.           *)

IsPrefix(a, b) == Len(a) <= Len(b) /\ a = SubSeq(b, 1, Len(a))

HasNoBrace(s) == \A i \in 1..Len(s) : s[i] # LBrace /\ s[i] # RBrace

\* no "{", no "}", the last "}" before the first "{", or a span json.loads rejects
NoCandidate(text) ==
    \/ Find(text, LBrace) = -1
    \/ RFind(text, RBrace) = -1
    \/ RFind(text, RBrace) < Find(text, LBrace)
    \/ ~Loads(JsonStr(text)).ok

\* C4 (as claimed): _parse_json_response raises for no text, and a text
\* without a brace span that parses yields the parse-failure mapping, which
\* holds the whole text as raw_response.
C4_ExtractNeverRaises ==
    parsed # NotCalled =>
        /\ parsed.kind = "returned"
        /\ NoCandidate(response_text) => parsed.val = ParseFailure(response_text)

\* C6: a mapping that was serialised and wrapped in text without braces is
\* recovered as it was; scenario C yields its two-key mapping.
C6_ExtractRecovers ==
    parsed # NotCalled =>
        /\ \A p \in NoiseTexts : \A q \in NoiseTexts : \A r \in SampleResults :
              (/\ HasNoBrace(p) /\ HasNoBrace(q)
               /\ IsPrefix(p, response_text)
               /\ Len(response_text) = Len(p) + Len(Dumps(r)) + Len(q)
               /\ response_text = p \o Dumps(r) \o q)
                  => parsed = Returned(r)
        /\ response_text = ScenarioC => parsed = Returned(RiskShort)

C6_Witness ==
    /\ response_text = <<Ws, Word("Thank you.")>> \o Dumps(RiskAnswer(JNum(3), Str("Low")))
                          \o <<Quote>>
    /\ parsed = Returned(RiskAnswer(JNum(3), Str("Low")))

\* the text holds more than one "{" and more than one "}"
SeveralObjects(text) ==
    /\ Cardinality({i \in 1..Len(text) : text[i] = LBrace}) >= 2
    /\ Cardinality({i \in 1..Len(text) : text[i] = RBrace}) >= 2

\* two sibling objects separated by text
Siblings ==
    <<LBrace, Quote, Word("a"), Quote, Colon, Num(1), RBrace, Ws, Word("and"), Ws,
      LBrace, Quote, Word("b"), Quote, Colon, Num(2), RBrace>>

\* C14 (as claimed): for a text that holds several objects the outcome is the
\* parse of the span from the first "{" to the last "}" when that span parses,
\* and the parse-failure mapping otherwise; two sibling objects separated by
\* text give the parse-failure mapping.
C14_OutermostSpanOnly ==
    (parsed # NotCalled /\ SeveralObjects(response_text)) =>
        /\ LET r == Loads(JsonStr(response_text))
           IN  parsed = IF r.ok THEN Returned(r.val)
                        ELSE Returned(ParseFailure(response_text))
        /\ \A p \in NoiseTexts : \A q \in NoiseTexts :
              response_text = p \o Siblings \o q
                  => parsed = Returned(ParseFailure(response_text))

---------------------------------------------------------------------------
(* Application records: load_sample_application and _generate_test_cases.  *)

SampleApplication ==
    JObj(<< Member("application_id", Str("TDLR-2024-AC-12345")),
            Member("license_type", Str("Air Conditioning Contractor")),
            Member("applicant_info",
                   JObj(<< Member("name", Str("John Smith")),
                           Member("business_name", Str("Smith HVAC Services")) >>)),
            Member("documents_submitted",
                   List(<< Str("Application Form TDLR-AC-001"),
                           Str("Proof of Insurance - General Liability $1M"),
                           Str("Background Check - Travis County Sheriff"),
                           Str("Payment Receipt - $185 Application Fee") >>)),
            Member("work_experience",
                   JObj(<< Member("years_experience", JNum(8)) >>)),
            Member("background_info",
                   JObj(<< Member("criminal_history", Str("None reported")),
                           Member("license_violations", Str("None")) >>)) >>)

\* {**d, w: v}
With(d, w, v) == DictSet(d, <<Word(w)>>, v)

TestCases ==
    << With(SampleApplication, "test_name", Str("complete_application")),
       With(With(With(SampleApplication,
            "documents_submitted", List(<<Str("Application Form TDLR-AC-001")>>)),
            "test_name", Str("missing_documents")),
            "expected_completeness", Str("low")),
       With(With(With(SampleApplication,
            "background_info",
                JObj(<< Member("criminal_history", Str("Misdemeanor theft 2019")),
                        Member("license_violations", Str("Previous suspension 2020")) >>)),
            "test_name", Str("high_risk_applicant")),
            "expected_risk", Str("high")),
       With(With(With(SampleApplication,
            "work_experience", JObj(<< Member("years_experience", JNum(1)) >>)),
            "test_name", Str("minimal_experience")),
            "expected_risk", Str("medium")),
       With(With(With(With(With(SampleApplication,
            "work_experience", JObj(<< Member("years_experience", JNum(15)) >>)),
            "background_info",
                JObj(<< Member("criminal_history", Str("None")),
                        Member("license_violations", Str("None")) >>)),
            "test_name", Str("excellent_applicant")),
            "expected_completeness", Str("high")),
            "expected_risk", Str("low")) >>

\* the records process_application is called with
Applications == {TestCases[2]}

---------------------------------------------------------------------------
(* Prompt patterns (_load_prompt_patterns) and str.format.                 *)

Field(name) == [k |-> "field", n |-> 0, w |-> name]

Prompts ==
    [ completeness_check |->
        << Word("ROLE: Document completeness validator"), Ws,
           Word("REQUIRED DOCUMENTS FOR"), Ws, Field("license_type"), Colon, Ws,
           Word("APPLICATION DATA"), Colon, Ws, Field("application_data"), Ws,
           Word("RETURN STRICTLY IN THIS JSON FORMAT"), Colon, Ws,
           LBrace, Word("completeness_score ... estimated_resolution_time"), RBrace >>,
      risk_assessment |->
        << Word("ROLE: Risk analysis expert"), Ws,
           Word("APPLICATION DATA"), Colon, Ws, Field("application_data"), Ws,
           Word("RETURN STRICTLY IN THIS JSON FORMAT"), Colon, Ws,
           LBrace, Word("risk_score ... recommended_action"), RBrace >>,
      final_recommendation |->
        << Word("ROLE: Senior licensing decision maker"), Ws,
           Word("COMPLETENESS ASSESSMENT"), Colon, Ws, Field("completeness_result"), Ws,
           Word("RISK ASSESSMENT"), Colon, Ws, Field("risk_result"), Ws,
           Word("RETURN STRICTLY IN THIS JSON FORMAT"), Colon, Ws,
           LBrace, Word("final_recommendation ... citizen_communication"), RBrace >> ]

RECURSIVE FormatFrom(_, _, _)
FormatFrom(template, kw, i) ==
    IF i > Len(template) THEN <<>>
    ELSE (IF template[i].k = "field" THEN kw[template[i].w] ELSE <<template[i]>>)
         \o FormatFrom(template, kw, i + 1)

\* template.format(**kw)
Format(template, kw) == FormatFrom(template, kw, 1)

\* str(value), as format() renders a binding
StrOf(v) ==
    CASE v.t = "str"  -> v.s
      [] v.t = "null" -> <<Word("None")>>
      [] OTHER        -> Dumps(v)

CompletenessPrompt(app) ==
    Format(Prompts.completeness_check,
           [license_type     |-> StrOf(Get(app, "license_type", Str("General"))),
            application_data |-> Dumps(app)])

RiskPrompt(app) ==
    Format(Prompts.risk_assessment, [application_data |-> Dumps(app)])

RecommendationPrompt(completeness, risk) ==
    Format(Prompts.final_recommendation,
           [completeness_result |-> Dumps(completeness),
            risk_result         |-> Dumps(risk)])

---------------------------------------------------------------------------
(* The reasoning service: client.chat.completions.create.                  *)

ServiceErrors == {"ServiceUnavailableError", "ServiceRejectedError"}

Refusal == <<Word("I am sorry, I cannot assess this application.")>>

LongNumAnswer ==
    <<LBrace, Quote, Word("completeness_score"), Quote, Colon, Ws, LongNum, RBrace>>

\* the texts the service answers a stage's prompt with
ServiceTexts(stage) ==
    CASE stage = "COMPLETENESS" ->
           { Dumps(CompletenessAnswer(JNum(85))), Refusal, <<LBrace, RBrace>>, LongNumAnswer }
      [] stage = "RISK" ->
           { <<Word("Here is the result"), Colon, Ws>>
                 \o Dumps(RiskAnswer(JNum(3), Str("Low"))) \o <<Ws, Word("Thank you.")>>,
             <<LBrace, Quote, Word("risk_level"), Colon, RBrace>> }
      [] stage = "RECOMMENDATION" ->
           { Dumps(RecommendationAnswer), LongNumAnswer }

---------------------------------------------------------------------------
(* TDLRApplicationProcessor.process_application, statement by statement.   *)

ModelUsed == Str("gpt-4")

\* datetime.now().isoformat() at whole seconds
IsoFormat(t) == JStr(<<Word("2024-01-01T00:00:"), Num(t)>>)

\* "Combine all results"
Combine(app, completeness, risk, final, t) ==
    JObj(<< Member("application_id", Get(app, "application_id", JNull)),
            Member("license_type", Get(app, "license_type", JNull)),
            Member("processing_date", IsoFormat(t)),
            Member("completeness_check", completeness),
            Member("risk_assessment", risk),
            Member("final_recommendation", final),
            Member("processing_metadata",
                   JObj(<< Member("model_used", ModelUsed),
                           Member("processing_time", Str("< 30 seconds")),
                           Member("cost_estimate", Str("$0.12")) >>)) >>)

\* one call of the service: error is "" when it answered
Request(stage, prompt, error) == [stage |-> stage, prompt |-> prompt, error |-> error]

\* a variant of Reraise that logs the error and returns None
Reraise_Swallowed(e) ==
    /\ pc' = "done"
    /\ outcome' = Returned(JNull)

\* except Exception as e: logger.error(...); raise
Reraise(e) ==
    /\ pc' = "raised"
    /\ outcome' = Raised(e)

\* a variant of ReadyFor that does not wait for step 2
ReadyFor_NoJoin(stage) ==
    CASE stage = "COMPLETENESS"   -> pc = "step1"
      [] stage = "RISK"           -> pc = "step2"
      [] stage = "RECOMMENDATION" -> pc \in {"step2", "step3"}

\* the statements of the try block run in program order
ReadyFor(stage) ==
    CASE stage = "COMPLETENESS"   -> pc = "step1"
      [] stage = "RISK"           -> pc = "step2"
      [] stage = "RECOMMENDATION" -> pc = "step3"

\* a call of process_application by main or the test suite
Call(app) ==
    /\ pc \in {"idle", "done", "raised"}
    /\ application_data' = app
    /\ pc' = "step1"
    /\ completeness_result' = JNull
    /\ risk_result' = JNull
    /\ final_result' = JNull
    /\ processing_result' = JNull
    /\ outcome' = NotCalled
    /\ requests' = <<>>
    /\ trace' = <<"START">>
    /\ saves' = <<>>
    /\ UNCHANGED <<now, files, extractVars, renderVars>>

\* main: results = processor.process_application(sample_app)
ProcessApplication ==
    /\ \E app \in Applications : Call(app)
    /\ UNCHANGED suiteVars

\* Step 1: completeness_result = self._check_completeness(application_data)
CheckCompleteness ==
    /\ ReadyFor("COMPLETENESS")
    /\ \/ \E e \in ServiceErrors :
             /\ requests' = Append(requests, Request("COMPLETENESS", CompletenessPrompt(application_data), e))
             /\ Reraise(e) /\ UNCHANGED <<completeness_result, trace>>
       \/ \E text \in ServiceTexts("COMPLETENESS") :
             /\ requests' = Append(requests, Request("COMPLETENESS", CompletenessPrompt(application_data), ""))
             /\ LET r == ParseJsonResponse(text)
                IN  IF r.kind = "raised"
                    THEN Reraise(ErrorName(r)) /\ UNCHANGED <<completeness_result, trace>>
                    ELSE /\ completeness_result' = r.val
                         /\ trace' = Append(trace, "COMPLETENESS")
                         /\ pc' = "step2"
                         /\ UNCHANGED outcome
    /\ UNCHANGED <<application_data, risk_result, final_result, processing_result,
                   now, files, saves, extractVars, renderVars, suiteVars>>

\* Step 2: risk_result = self._assess_risk(application_data)
AssessRisk ==
    /\ ReadyFor("RISK")
    /\ \/ \E e \in ServiceErrors :
             /\ requests' = Append(requests, Request("RISK", RiskPrompt(application_data), e))
             /\ Reraise(e) /\ UNCHANGED <<risk_result, trace>>
       \/ \E text \in ServiceTexts("RISK") :
             /\ requests' = Append(requests, Request("RISK", RiskPrompt(application_data), ""))
             /\ LET r == ParseJsonResponse(text)
                IN  IF r.kind = "raised"
                    THEN Reraise(ErrorName(r)) /\ UNCHANGED <<risk_result, trace>>
                    ELSE /\ risk_result' = r.val
                         /\ trace' = Append(trace, "RISK")
                         /\ pc' = "step3"
                         /\ UNCHANGED outcome
    /\ UNCHANGED <<application_data, completeness_result, final_result,
                   processing_result, now, files, saves, extractVars, renderVars, suiteVars>>

\* Step 3: final_result = self._generate_recommendation(completeness_result, risk_result)
GenerateRecommendation ==
    /\ ReadyFor("RECOMMENDATION")
    /\ \/ \E e \in ServiceErrors :
             /\ requests' = Append(requests,
                    Request("RECOMMENDATION",
                            RecommendationPrompt(completeness_result, risk_result), e))
             /\ Reraise(e) /\ UNCHANGED <<final_result, trace>>
       \/ \E text \in ServiceTexts("RECOMMENDATION") :
             /\ requests' = Append(requests, Request("RECOMMENDATION", RecommendationPrompt(completeness_result, risk_result), ""))
             /\ LET r == ParseJsonResponse(text)
                IN  IF r.kind = "raised"
                    THEN Reraise(ErrorName(r)) /\ UNCHANGED <<final_result, trace>>
                    ELSE /\ final_result' = r.val
                         /\ trace' = Append(trace, "RECOMMENDATION")
                         /\ pc' = "combine"
                         /\ UNCHANGED outcome
    /\ UNCHANGED <<application_data, completeness_result, risk_result,
                   processing_result, now, files, saves, extractVars, renderVars, suiteVars>>

\* processing_result = {...}
CombineResults ==
    /\ pc = "combine"
    /\ processing_result' = Combine(application_data, completeness_result, risk_result,
                                    final_result, now)
    /\ trace' = Append(trace, "ASSEMBLED")
    /\ pc' = "save"
    /\ UNCHANGED <<application_data, completeness_result, risk_result, final_result,
                   outcome, now, files, requests, saves, extractVars, renderVars, suiteVars>>

\* a variant of SaveResults that keeps a file that is already there
SaveResults_KeepExisting ==
    /\ pc = "save"
    /\ saves' = Append(saves, processing_result)
    /\ \/ /\ files' = IF files[now] = NoFile
                      THEN [files EXCEPT ![now] = Dumps(processing_result)]
                      ELSE files
          /\ trace' = Append(trace, "PERSISTED")
          /\ pc' = "return"
          /\ UNCHANGED outcome
       \/ /\ Reraise("OSError")
          /\ UNCHANGED <<files, trace>>
    /\ UNCHANGED <<application_data, completeness_result, risk_result, final_result,
                   processing_result, now, requests, extractVars, renderVars, suiteVars>>

\* self._save_results(processing_result): the file is named after the second
\* of the call; open(filename, 'w') empties a file that is already there
SaveResults ==
    /\ pc = "save"
    /\ saves' = Append(saves, processing_result)
    /\ \/ /\ files' = [files EXCEPT ![now] = Dumps(processing_result)]
          /\ trace' = Append(trace, "PERSISTED")
          /\ pc' = "return"
          /\ UNCHANGED outcome
       \/ \* os.makedirs or open raises
          /\ Reraise("OSError")
          /\ UNCHANGED <<files, trace>>
       \/ \* the write raises after open has emptied the file
          /\ files' = [files EXCEPT ![now] = <<>>]
          /\ Reraise("OSError")
          /\ UNCHANGED trace
    /\ UNCHANGED <<application_data, completeness_result, risk_result, final_result,
                   processing_result, now, requests, extractVars, renderVars, suiteVars>>

\* return processing_result
ReturnResult ==
    /\ pc = "return"
    /\ outcome' = Returned(processing_result)
    /\ pc' = "done"
    /\ UNCHANGED <<application_data, completeness_result, risk_result, final_result,
                   processing_result, now, files, requests, trace, saves, extractVars, renderVars, suiteVars>>

\* the wall clock moves on; the run reads it when it combines and when it saves
Tick ==
    /\ pc \in {"combine", "save"}
    /\ now < MaxClock
    /\ now' = now + 1
    /\ UNCHANGED <<pc, application_data, completeness_result, risk_result, final_result,
                   processing_result, outcome, files, requests, trace, saves, extractVars, renderVars, suiteVars>>

Init ==
    /\ ExtractIdle
    /\ PipelineIdle
    /\ RenderIdle
    /\ SuiteIdle

Next ==
    \/ ProcessApplication
    \/ CheckCompleteness
    \/ AssessRisk
    \/ GenerateRecommendation
    \/ CombineResults
    \/ SaveResults
    \/ ReturnResult
    \/ Tick

Spec == Init /\ [][Next]_vars

---------------------------------------------------------------------------
(* What the prompt templates ask each stage's answer to hold.              *)

ExpectedKeys(stage) ==
    CASE stage = "COMPLETENESS" ->
           { "completeness_score", "missing_documents", "incomplete_documents",
             "consistency_issues", "next_actions", "processing_priority",
             "estimated_resolution_time" }
      [] stage = "RISK" ->
           { "risk_score", "risk_level", "risk_factors", "mitigation_recommendations",
             "reviewer_notes", "requires_human_review", "recommended_action" }
      [] stage = "RECOMMENDATION" ->
           { "final_recommendation", "conditions", "required_actions",
             "processing_timeline", "priority_flag", "reviewer_notes",
             "citizen_communication" }

InRange(v, lo, hi) == v.t = "num" /\ v.n >= lo /\ v.n <= hi

WellFormed(stage, d) ==
    /\ d.t = "obj"
    /\ \A w \in ExpectedKeys(stage) : HasKey(d, <<Word(w)>>)
    /\ stage = "COMPLETENESS" => InRange(Get(d, "completeness_score", JNull), 0, 100)
    /\ stage = "RISK" => InRange(Get(d, "risk_score", JNull), 1, 10)

StageOrder == <<"START", "COMPLETENESS", "RISK", "RECOMMENDATION", "ASSEMBLED", "PERSISTED">>

RequestStages == [i \in 1..Len(requests) |-> requests[i].stage]

Requested(stage) == \E i \in 1..Len(requests) : requests[i].stage = stage

Reached(state) == \E i \in 1..Len(trace) : trace[i] = state

ServiceFailed == \E i \in 1..Len(requests) : requests[i].error \in ServiceErrors

---------------------------------------------------------------------------
(* Claims about process_application, checked under Spec.                   *)

\* C1: the stages of a run execute in the order COMPLETENESS, RISK,
\* RECOMMENDATION, ASSEMBLED, PERSISTED: the RECOMMENDATION call is issued
\* only when COMPLETENESS and RISK have both returned a result, the record is
\* assembled only when RECOMMENDATION has returned, and the store is called
\* only with an assembled record.
C1_StagesInOrder ==
    /\ IsPrefix(trace, StageOrder)
    /\ IsPrefix(RequestStages, <<"COMPLETENESS", "RISK", "RECOMMENDATION">>)
    /\ Requested("RISK") => Reached("COMPLETENESS")
    /\ Requested("RECOMMENDATION") =>
          /\ Reached("COMPLETENESS") /\ Reached("RISK")
          /\ completeness_result # JNull /\ risk_result # JNull
    /\ processing_result # JNull => Reached("RECOMMENDATION") /\ final_result # JNull
    /\ saves # <<>> => Reached("ASSEMBLED") /\ processing_result # JNull

C1_Witness == pc = "done" /\ trace = StageOrder /\ Len(requests) = 3

\* C2: when a service call fails, the run aborts: the failed call is the
\* last call of the run (not retried, no later stage), the store is not
\* called, nothing is assembled, and the caller receives the service's error.
C2_ServiceFailureAborts ==
    \A i \in 1..Len(requests) :
        requests[i].error \in ServiceErrors =>
            /\ i = Len(requests)
            /\ \A j \in 1..(i - 1) : requests[j].stage # requests[i].stage
            /\ pc = "raised"
            /\ outcome = Raised(requests[i].error)
            /\ saves = <<>>
            /\ processing_result = JNull
            /\ ~Reached(requests[i].stage)

C2_Witness ==
    /\ Len(requests) = 2
    /\ requests[2].error = "ServiceUnavailableError"
    /\ outcome = Raised("ServiceUnavailableError")

\* C3 (as claimed): after a parse failure in COMPLETENESS or RISK the
\* RECOMMENDATION request is built from both results as they are, and a run
\* whose service calls all succeed ends PERSISTED with the sentinel stored.
C3_ParseFailureNeverAborts ==
    (IsParseFailure(completeness_result) \/ IsParseFailure(risk_result)) =>
        /\ Requested("RECOMMENDATION") =>
              requests[3].prompt = RecommendationPrompt(completeness_result, risk_result)
        /\ (pc \in {"raised", "done"} /\ ~ServiceFailed) =>
              /\ Reached("PERSISTED")
              /\ Get(outcome.val, "completeness_check", JNull) = completeness_result
              /\ Get(outcome.val, "risk_assessment", JNull) = risk_result
              /\ Loads(files[now]).val = outcome.val

\* C5 (as claimed): every result a stage produced is well-formed for its
\* stage or marked as a parse failure.
C5_WellFormedOrMarked ==
    /\ completeness_result # JNull =>
          WellFormed("COMPLETENESS", completeness_result) \/ IsParseFailure(completeness_result)
    /\ risk_result # JNull =>
          WellFormed("RISK", risk_result) \/ IsParseFailure(risk_result)
    /\ final_result # JNull =>
          WellFormed("RECOMMENDATION", final_result) \/ IsParseFailure(final_result)

\* C7: a run that completes has assembled one record, from the three stage
\* results, handed exactly that record to the store exactly once, and returned
\* exactly that record; the file written reads back as the returned record.
C7_OneRecordSavedOnce ==
    pc = "done" =>
        /\ outcome.kind = "returned"
        /\ Len(saves) = 1
        /\ saves[1] = outcome.val
        /\ \E t \in 0..now :
              outcome.val = Combine(application_data, completeness_result, risk_result,
                                    final_result, t)
        /\ files[now] = Dumps(outcome.val)
        /\ Loads(files[now]) = Ok(outcome.val, Len(files[now]) + 1)

C7_Witness ==
    /\ pc = "done"
    /\ IsParseFailure(Get(outcome.val, "risk_assessment", JNull))
    /\ Loads(files[now]).val = outcome.val

\* what the caller of process_application holds once the call is over: the
\* value it returned, or nothing but the exception it raised
CallerHolds(record) == outcome.kind = "returned" /\ outcome.val = record

\* C13 (as claimed): when _save_results fails, the three stages have
\* returned and the record has been assembled from their results; the caller
\* is given the error of the store and still has the assembled record.
C13_WriteFailureKeepsResult ==
    (pc = "raised" /\ saves # <<>>) =>
        /\ Reached("COMPLETENESS") /\ Reached("RISK") /\ Reached("RECOMMENDATION")
        /\ Reached("ASSEMBLED") /\ ~Reached("PERSISTED")
        /\ \E t \in 0..now :
              saves = << Combine(application_data, completeness_result, risk_result,
                                 final_result, t) >>
        /\ CallerHolds(saves[1])

---------------------------------------------------------------------------
(* PromptPerformanceTestSuite.run_consistency_test                         *)

RECURSIVE SumOf(_, _)
SumOf(xs, i) == IF i > Len(xs) THEN 0 ELSE xs[i] + SumOf(xs, i + 1)

\* the fraction num/den, kept exact
Ratio(num, den) == JObj(<< Member("num", JNum(num)), Member("den", JNum(den)) >>)

\* statistics.variance(data): sum((x - mean)^2) / (n - 1), which is
\* (n * sum(x^2) - sum(x)^2) / (n * (n - 1)); fewer than two values are a
\* StatisticsError, a value that is no number is a TypeError
Variance(data) ==
    LET n == Len(data)
    IN  CASE \E i \in 1..n : data[i].t # "num" -> Raised("TypeError")
          [] n < 2 -> Raised("StatisticsError")
          [] OTHER ->
               LET xs == [i \in 1..n |-> data[i].n]
                   sq == [i \in 1..n |-> data[i].n * data[i].n]
               IN  Returned(Ratio(n * SumOf(sq, 1) - SumOf(xs, 1) * SumOf(xs, 1),
                                  n * (n - 1)))

\* q < k for a fraction q with a positive denominator
RatioBelow(q, k) == Get(q, "num", JNull).n < k * Get(q, "den", JNull).n

\* statistics.variance(xs) if len(xs) > 1 else 0
GuardedVariance(data) ==
    IF Len(data) > 1 THEN Variance(data) ELSE Returned(JNum(0))

\* the consistency_metrics dict, built entry by entry
ConsistencyMetrics(rs) ==
    LET completeness_scores ==
            [i \in 1..Len(rs) |->
                Get(Get(rs[i], "completeness_check", JNull), "completeness_score", JNum(0))]
        risk_scores ==
            [i \in 1..Len(rs) |->
                Get(Get(rs[i], "risk_assessment", JNull), "risk_score", JNum(0))]
        cv == GuardedVariance(completeness_scores)
        rv == GuardedVariance(risk_scores)
        rating == Variance(completeness_scores)
    IN  CASE cv.kind = "raised" -> cv
          [] rv.kind = "raised" -> rv
          [] rating.kind = "raised" -> rating
          [] OTHER ->
               Returned(JObj(<<
                   Member("completeness_score_variance", cv.val),
                   Member("risk_score_variance", rv.val),
                   Member("completeness_scores",
                          JArr([i \in 1..Len(rs) |-> Item(completeness_scores[i])])),
                   Member("risk_scores",
                          JArr([i \in 1..Len(rs) |-> Item(risk_scores[i])])),
                   Member("consistency_rating",
                          IF RatioBelow(rating.val, 5) THEN Str("High") ELSE Str("Medium")) >>))

InitConsistency ==
    /\ ExtractIdle
    /\ PipelineIdle
    /\ RenderIdle
    /\ suite_pc = "loop"
    /\ iterations \in 1..MaxIterations
    /\ test_case = TestCases[1]
    /\ results = <<>>
    /\ metrics = NoMetrics
    /\ report = NotCalled

\* for i in range(iterations): result = self.processor.process_application(test_case)
IterationCall ==
    /\ suite_pc = "loop"
    /\ Len(results) < iterations
    /\ Call(test_case)
    /\ suite_pc' = "called"
    /\ UNCHANGED <<iterations, test_case, results, metrics, report>>

\* results.append(result)
IterationReturn ==
    /\ suite_pc = "called"
    /\ pc = "done"
    /\ results' = Append(results, outcome.val)
    /\ suite_pc' = "loop"
    /\ UNCHANGED <<iterations, test_case, metrics, report, extractVars, renderVars, pipelineVars>>

\* process_application raised: nothing in run_consistency_test catches it
IterationRaise ==
    /\ suite_pc = "called"
    /\ pc = "raised"
    /\ report' = outcome
    /\ suite_pc' = "raised"
    /\ UNCHANGED <<iterations, test_case, results, metrics, extractVars, renderVars, pipelineVars>>

\* "Analyze consistency" ... return consistency_metrics
AnalyzeConsistency ==
    /\ suite_pc = "loop"
    /\ Len(results) = iterations
    /\ report' = ConsistencyMetrics(results)
    /\ suite_pc' = IF report'.kind = "raised" THEN "raised" ELSE "done"
    /\ UNCHANGED <<iterations, test_case, results, metrics, extractVars, renderVars, pipelineVars>>

NextConsistency ==
    \/ IterationCall
    \/ IterationReturn
    \/ IterationRaise
    \/ AnalyzeConsistency
    \/ CheckCompleteness
    \/ AssessRisk
    \/ GenerateRecommendation
    \/ CombineResults
    \/ SaveResults
    \/ ReturnResult
    \/ Tick

SpecConsistency == InitConsistency /\ [][NextConsistency]_vars

\* run_consistency_test(test_case, 2): two runs of one test case, one after
\* the other
InitTwoRuns ==
    /\ ExtractIdle
    /\ PipelineIdle
    /\ RenderIdle
    /\ suite_pc = "loop"
    /\ iterations = 2
    /\ test_case \in {TestCases[1], TestCases[3]}
    /\ results = <<>>
    /\ metrics = NoMetrics
    /\ report = NotCalled

SpecTwoRuns == InitTwoRuns /\ [][NextConsistency]_vars

\* C15: the file a save writes is the file of the second of the save and no
\* other: the record replaces whatever an earlier run saved in that second,
\* the files of all other seconds stay as they are, and nothing but a save
\* touches a file.
C15_SameSecondOverwrites ==
    [][ /\ files' # files => pc = "save"
        /\ (pc = "save" /\ pc' = "return") =>
              files' = [files EXCEPT ![now] = Dumps(processing_result)] ]_vars

\* two runs saved in the same second: only the record of the later run is
\* on disk
C15_Witness ==
    /\ Len(results) = 2
    /\ now = 0
    /\ results[1] # results[2]
    /\ files[0] = Dumps(results[2])
    /\ \A t \in 1..MaxClock : files[t] = NoFile

\* C8 (as claimed): run_consistency_test(1) completes once its single run has
\* returned, and reports both variances as 0 together with a rating.
C8_SingleIterationVarianceZero ==
    (iterations = 1 /\ Len(results) = 1 /\ suite_pc \in {"done", "raised"}) =>
        /\ report.kind = "returned"
        /\ Get(report.val, "completeness_score_variance", JNull) = JNum(0)
        /\ Get(report.val, "risk_score_variance", JNull) = JNum(0)
        /\ HasKey(report.val, <<Word("consistency_rating")>>)

---------------------------------------------------------------------------
(* PromptPerformanceTestSuite._validate_test_result                        *)

\* str.lower() on the words the model uses
LowerWord(w) ==
    CASE w \in {"Low", "LOW", "low"}          -> "low"
      [] w \in {"Medium", "MEDIUM", "medium"} -> "medium"
      [] w \in {"High", "HIGH", "high"}       -> "high"
      [] w \in {"Critical", "critical"}       -> "critical"
      [] OTHER -> w

Lower(s) == [i \in 1..Len(s) |-> IF s[i].k = "word" THEN Word(LowerWord(s[i].w)) ELSE s[i]]

\* x >= k, x < k, x <= k between a JSON value and an int: a TypeError
\* unless the value is a number
IsNumber(v) == v.t = "num"

ValidateTestResult(tc, result) ==
    LET completeness_score ==
            Get(Get(result, "completeness_check", JNull), "completeness_score", JNum(0))
        risk_score == Get(Get(result, "risk_assessment", JNull), "risk_score", JNum(10))
        risk_level == Get(Get(result, "risk_assessment", JNull), "risk_level", JStr(<<>>))
        hasC == HasKey(tc, <<Word("expected_completeness")>>)
        hasR == HasKey(tc, <<Word("expected_risk")>>)
        expC == Get(tc, "expected_completeness", JNull)
        expR == Get(tc, "expected_risk", JNull)
        passC == \/ expC = Str("high") /\ completeness_score.n >= 80
                 \/ expC = Str("low") /\ completeness_score.n < 60
        passR == Lower(expR.s) = Lower(risk_level.s)
        total_checks == IF hasC \/ hasR
                        THEN (IF hasC THEN 1 ELSE 0) + (IF hasR THEN 1 ELSE 0)
                        ELSE 2
        accuracy_score ==
            IF hasC \/ hasR
            THEN (IF hasC /\ passC THEN 1 ELSE 0) + (IF hasR /\ passR THEN 1 ELSE 0)
            ELSE (IF completeness_score.n >= 70 THEN 1 ELSE 0)
                 + (IF risk_score.n <= 5 THEN 1 ELSE 0)
    IN  CASE hasC /\ expC \in {Str("high"), Str("low")} /\ ~IsNumber(completeness_score)
               -> Raised("TypeError")
          [] hasR /\ (expR.t # "str" \/ risk_level.t # "str") -> Raised("AttributeError")
          [] ~hasC /\ ~hasR /\ (~IsNumber(completeness_score) \/ ~IsNumber(risk_score))
               -> Raised("TypeError")
          [] OTHER -> Returned(JNum((accuracy_score * 100) \div total_checks))

\* the expectations a test case may carry
Labelled(app, c, r) ==
    LET a == IF c = "" THEN app ELSE With(app, "expected_completeness", Str(c))
    IN  IF r = "" THEN a ELSE With(a, "expected_risk", Str(r))

ValidateCases ==
    { Labelled(JObj(<< Member("test_name", Str("case")) >>), c, r) :
        c \in {"", "high", "low", "medium"}, r \in {"", "low", "High", "medium"} }

\* the stage results a ProcessingResult may hold: answers in the asked
\* format, answers with a field of another type, an empty mapping, the
\* parse-failure mapping
CompletenessResults ==
    { JObj(<< Member("completeness_score", v) >>) :
        v \in { JNum(0), JNum(55), JNum(59), JNum(60), JNum(69), JNum(70), JNum(79),
                JNum(80), JNum(85), JNum(100), Str("85"), JNull } }
    \cup { JObj(<<>>), ParseFailure(Refusal) }

RiskResults ==
    { JObj(<< Member("risk_score", JNum(k)), Member("risk_level", Str(l)) >>) :
        k \in {3, 5, 6}, l \in {"Low", "low", "HIGH", "Medium"} }
    \cup { JObj(<< Member("risk_score", Str("3")), Member("risk_level", JNum(1)) >>),
           JObj(<<>>), ParseFailure(Refusal) }

ValidateResults ==
    { JObj(<< Member("completeness_check", c), Member("risk_assessment", r) >>) :
        c \in CompletenessResults, r \in RiskResults }

InitValidate ==
    /\ ExtractIdle
    /\ PipelineIdle
    /\ RenderIdle
    /\ suite_pc = "validate"
    /\ iterations = 0
    /\ test_case \in ValidateCases
    /\ \E r \in ValidateResults : results = <<r>>
    /\ metrics = NoMetrics
    /\ report = NotCalled

\* accuracy_score = self._validate_test_result(test_case, result)
Validate ==
    /\ suite_pc = "validate"
    /\ report' = ValidateTestResult(test_case, results[1])
    /\ suite_pc' = IF report'.kind = "raised" THEN "raised" ELSE "done"
    /\ UNCHANGED <<iterations, test_case, results, metrics, extractVars, renderVars, pipelineVars>>

NextValidate == Validate

SpecValidate == InitValidate /\ [][NextValidate]_vars

\* what the claim says of a test case and a result, read off the two
\* mappings: the checks made and the checks passed
ClaimedScore(tc, result) ==
    LET score == Get(Get(result, "completeness_check", JNull), "completeness_score", JNum(0))
        level == Get(Get(result, "risk_assessment", JNull), "risk_level", JStr(<<>>))
        riskS == Get(Get(result, "risk_assessment", JNull), "risk_score", JNum(10))
        expC  == Get(tc, "expected_completeness", JNull)
        expR  == Get(tc, "expected_risk", JNull)
        checks ==
            IF expC = JNull /\ expR = JNull
            THEN << score.t = "num" /\ score.n >= 70, riskS.t = "num" /\ riskS.n <= 5 >>
            ELSE (IF expC = JNull THEN <<>>
                  ELSE << \/ expC = Str("high") /\ score.t = "num" /\ score.n >= 80
                          \/ expC = Str("low") /\ score.t = "num" /\ score.n < 60 >>)
                 \o (IF expR = JNull THEN <<>>
                     ELSE << level.t = "str" /\ Lower(expR.s) = Lower(level.s) >>)
        passed == Cardinality({i \in 1..Len(checks) : checks[i]})
    IN  (100 * passed) \div Len(checks)

\* C9 (as claimed): for every test case and every result
\* _validate_test_result returns 100 * passed / made, one of 0, 50, 100.
C9_ValidateScores ==
    report # NotCalled =>
        /\ report = Returned(JNum(ClaimedScore(test_case, results[1])))
        /\ report.val.n \in {0, 50, 100}

---------------------------------------------------------------------------
(* PromptPerformanceTestSuite._calculate_performance_rating                *)

\* seconds are counted in tenths, accuracies in percent
Seconds(n) == 10 * n

\* a variant of CalculatePerformanceRating whose first time limit is inclusive
CalculatePerformanceRating_Inclusive(m) ==
    LET avg_time     == m.average_processing_time
        avg_accuracy == m.average_accuracy
    IN  CASE avg_accuracy >= 90 /\ avg_time <= Seconds(5) -> "Excellent"
          [] avg_accuracy >= 80 /\ avg_time < Seconds(10) -> "Good"
          [] avg_accuracy >= 70 /\ avg_time < Seconds(15) -> "Fair"
          [] OTHER -> "Needs Improvement"

CalculatePerformanceRating(m) ==
    LET avg_time     == m.average_processing_time
        avg_accuracy == m.average_accuracy
    IN  IF avg_accuracy >= 90 /\ avg_time < Seconds(5) THEN "Excellent"
        ELSE IF avg_accuracy >= 80 /\ avg_time < Seconds(10) THEN "Good"
        ELSE IF avg_accuracy >= 70 /\ avg_time < Seconds(15) THEN "Fair"
        ELSE "Needs Improvement"

\* mean accuracies (percent) and mean times (tenths of a second) around the limits
Accuracies == {0, 50, 69, 70, 71, 79, 80, 81, 89, 90, 91, 100}
Times == {0, 1, 49, 50, 51, 99, 100, 101, 149, 150, 151, 300}

InitRating ==
    /\ ExtractIdle
    /\ PipelineIdle
    /\ RenderIdle
    /\ suite_pc = "rate"
    /\ iterations = 0
    /\ test_case = JNull
    /\ results = <<>>
    /\ \E t \in Times : \E a \in Accuracies : metrics = Metrics(t, a)
    /\ report = NotCalled

\* "overall_performance_rating": self._calculate_performance_rating(performance_metrics)
Rate ==
    /\ suite_pc = "rate"
    /\ report' = Returned(Str(CalculatePerformanceRating(metrics)))
    /\ suite_pc' = "done"
    /\ UNCHANGED <<iterations, test_case, results, metrics, extractVars, renderVars, pipelineVars>>

NextRating == Rate

SpecRating == InitRating /\ [][NextRating]_vars

Rank(rating) ==
    CASE rating = "Excellent" -> 3
      [] rating = "Good" -> 2
      [] rating = "Fair" -> 1
      [] OTHER -> 0

---------------------------------------------------------------------------
(* Prompt rendering: the prompt each stage sends, as a function of the     *)
(* arguments of _check_completeness, _assess_risk and                      *)
(* _generate_recommendation.                                               *)

\* the arguments of one call; the stage reads the ones its template names
Bindings(app, completeness, risk) ==
    [application_data |-> app, completeness_result |-> completeness, risk_result |-> risk]

\* the prompt a stage builds from its arguments
RenderPrompt(stage, b) ==
    CASE stage = "COMPLETENESS"   -> CompletenessPrompt(b.application_data)
      [] stage = "RISK"           -> RiskPrompt(b.application_data)
      [] stage = "RECOMMENDATION" ->
           RecommendationPrompt(b.completeness_result, b.risk_result)

\* the dicts that hold the entries of d, inserted in any order
Reorderings(d) ==
    { JObj([i \in 1..Len(d.o) |-> d.o[f[i]]]) : f \in Permutations(1..Len(d.o)) }

BackgroundInfo ==
    JObj(<< Member("criminal_history", Str("None reported")),
            Member("license_violations", Str("None")) >>)

\* an application record of three entries, one of them a nested dict
ShortApplication(license, background) ==
    JObj(<< Member("application_id", Str("TDLR-2024-AC-12345")),
            Member("license_type", Str(license)),
            Member("background_info", background) >>)

\* application records: the same entries in every insertion order, at the
\* top level and in the nested dict, and a record of another licence type
ReorderedApplications ==
    UNION { Reorderings(ShortApplication(l, b)) :
              l \in {"Air Conditioning Contractor", "Electrician"},
              b \in Reorderings(BackgroundInfo) }

\* test cases as _generate_test_cases builds them: an application record
\* with a test_name and the expectations a case may carry
LabelledApplications ==
    { Labelled(With(ShortApplication("Air Conditioning Contractor", BackgroundInfo),
                    "test_name", Str(name)), c, r) :
        name \in {"complete_application", "excellent_applicant"},
        c \in {"", "high", "low"}, r \in {"", "low", "high"} }

RenderApplications ==
    ReorderedApplications \cup LabelledApplications
        \cup {SampleApplication} \cup {TestCases[i] : i \in 1..Len(TestCases)}

\* stage results: an answer in any key order, the parse-failure mapping
RenderResults ==
    Reorderings(RiskShort) \cup {JObj(<<>>), ParseFailure(Refusal)}
        \cup Reorderings(JObj(<< Member("completeness_score", JNum(85)),
                                 Member("processing_priority", Str("Standard")) >>))

RenderBindings(stage) ==
    IF stage = "RECOMMENDATION"
    THEN { Bindings(JNull, c, r) : c \in RenderResults, r \in RenderResults }
    ELSE { Bindings(app, JNull, JNull) : app \in RenderApplications }

InitRender ==
    /\ ExtractIdle
    /\ PipelineIdle
    /\ SuiteIdle
    /\ render_stage \in {"COMPLETENESS", "RISK", "RECOMMENDATION"}
    /\ \E a \in RenderBindings(render_stage) : \E b \in RenderBindings(render_stage) :
          bindings = <<a, b>>
    /\ prompts = <<>>

\* two calls of the stage, one with each of the two arguments
Render ==
    /\ prompts = <<>>
    /\ prompts' = [i \in 1..2 |-> RenderPrompt(render_stage, bindings[i])]
    /\ UNCHANGED <<render_stage, bindings, extractVars, pipelineVars, suiteVars>>

NextRender == Render

SpecRender == InitRender /\ [][NextRender]_vars

\* dict and list equality of Python: the same keys with equal values,
\* whatever the insertion order; lists are equal item by item
RECURSIVE Equal(_, _)
Equal(a, b) ==
    /\ a.t = b.t
    /\ CASE a.t = "obj" ->
              /\ Len(a.o) = Len(b.o)
              /\ \A i \in 1..Len(a.o) : \E j \in 1..Len(b.o) :
                    a.o[i].key = b.o[j].key /\ Equal(a.o[i].val, b.o[j].val)
         [] a.t = "arr" ->
              /\ Len(a.o) = Len(b.o)
              /\ \A i \in 1..Len(a.o) : Equal(a.o[i].val, b.o[i].val)
         [] OTHER -> a = b

\* the two calls have logically equal arguments
EqualBindings ==
    /\ Equal(bindings[1].application_data, bindings[2].application_data)
    /\ Equal(bindings[1].completeness_result, bindings[2].completeness_result)
    /\ Equal(bindings[1].risk_result, bindings[2].risk_result)

\* C11 (as claimed): in every stage two calls with logically equal arguments,
\* whatever the order in which their keys were inserted, send the same prompt
\* text.
C11_EqualBindingsSamePrompt ==
    (prompts # <<>> /\ EqualBindings) => prompts[1] = prompts[2]

\* the keys _generate_test_cases adds to an application record
LabelKeys == { <<Word("test_name")>>, <<Word("expected_completeness")>>,
               <<Word("expected_risk")>> }

IsLabel(m) == m.key \in LabelKeys

NotLabel(m) == ~IsLabel(m)

\* the application record a test case was made from
WithoutLabels(tc) == JObj(SelectSeq(tc.o, NotLabel))

\* the two calls are made with test cases that differ in their labels only
DifferOnlyInLabels ==
    /\ bindings[1].application_data.t = "obj"
    /\ bindings[2].application_data.t = "obj"
    /\ WithoutLabels(bindings[1].application_data) = WithoutLabels(bindings[2].application_data)
    /\ bindings[1].completeness_result = bindings[2].completeness_result
    /\ bindings[1].risk_result = bindings[2].risk_result

\* C12 (as claimed): two test cases that differ only in test_name,
\* expected_completeness or expected_risk send the same prompt to the service
\* in the stages that read the application record.
C12_LabelsNotSent ==
    (prompts # <<>> /\ DifferOnlyInLabels) => prompts[1] = prompts[2]

=============================================================================
